---- MODULE Spec2Model ----
(***************************************************************************)
(* Turnus Planner backend: schedule generation (src/main.py).              *)
(*                                                                         *)
(* The document store holds an employee collection and a schedule          *)
(* collection.  POST /api/schedule/generate reads the employees of a       *)
(* department, computes a monthly rotation and inserts one schedule        *)
(* document.  Requests are handled independently; a request touches the    *)
(* store twice (one find, one insert_one), so a request is modelled as a   *)
(* process with one step per store access.                                 *)
(***************************************************************************)
EXTENDS Integers, Sequences, FiniteSets, TLC

(* ---------------------------- bounds ----------------------------------- *)

\* largest number of documents in the employee collection
MaxEmp == 2

\* request handlers that may be in flight at the same time
Procs == {1, 2}

\* department ids used by requests and employees
Departments == {"d1", "d2"}

\* (year, month) pairs requested: every month of a common year, leap and
\* century Februaries, December roll-over, the first and the last
\* representable months, and values that date() rejects
ReqDates ==
    { <<2023, m>> : m \in 0..13 } \cup
    { <<2024, 2>>, <<2024, 12>>, <<1900, 2>>, <<2000, 2>>,
      <<1, 1>>, <<9999, 11>>, <<9999, 12>>, <<0, 1>> }

Bodies ==
    { [department_id |-> dep, year |-> ym[1], month |-> ym[2]] :
        dep \in Departments, ym \in ReqDates }

\* requests issued while another request is in flight
ConcDates == { <<2024, 2>>, <<2023, 4>> }

ConcBodies ==
    { [department_id |-> dep, year |-> ym[1], month |-> ym[2]] :
        dep \in Departments, ym \in ConcDates }

(* ------------------------ datetime.date -------------------------------- *)

Truthy(b) == b = TRUE

IsLeap(year) == year % 4 = 0 /\ (year % 100 # 0 \/ year % 400 = 0)

DAYS_IN_MONTH == <<31, 28, 31, 30, 31, 30, 31, 31, 30, 31, 30, 31>>

DaysInMonth(year, month) ==
    IF month = 2 /\ IsLeap(year) THEN 29 ELSE DAYS_IN_MONTH[month]

DAYS_BEFORE_MONTH == <<0, 31, 59, 90, 120, 151, 181, 212, 243, 273, 304, 334>>

DaysBeforeMonth(year, month) ==
    DAYS_BEFORE_MONTH[month] + (IF month > 2 /\ IsLeap(year) THEN 1 ELSE 0)

DaysBeforeYear(year) ==
    LET y == year - 1
    IN  y * 365 + (y \div 4) - (y \div 100) + (y \div 400)

\* date(year, month, day) raises ValueError outside these ranges
ValidDate(year, month, day) ==
    /\ year \in 1..9999
    /\ month \in 1..12
    /\ day \in 1..DaysInMonth(year, month)

\* date.toordinal()
Ymd2Ord(d) == DaysBeforeYear(d[1]) + DaysBeforeMonth(d[1], d[2]) + d[3]

\* date.fromordinal(), the proleptic Gregorian ordinal back to (y, m, d)
Ord2Ymd(ord) ==
    LET n0   == ord - 1
        n400 == n0 \div 146097
        r400 == n0 % 146097
        n100 == r400 \div 36524
        r100 == r400 % 36524
        n4   == r100 \div 1461
        r4   == r100 % 1461
        n1   == r4 \div 365
        n    == r4 % 365
        year == n400 * 400 + 1 + n100 * 100 + n4 * 4 + n1
        leapyear == n1 = 3 /\ (n4 # 24 \/ n100 = 3)
        month0 == (n + 50) \div 32
        prec0 == DAYS_BEFORE_MONTH[month0]
                    + (IF month0 > 2 /\ leapyear THEN 1 ELSE 0)
        month == IF prec0 > n THEN month0 - 1 ELSE month0
        prec  == IF prec0 > n
                 THEN prec0 - (DAYS_IN_MONTH[month]
                                + (IF month = 2 /\ leapyear THEN 1 ELSE 0))
                 ELSE prec0
    IN  IF n1 = 4 \/ n100 = 4
        THEN <<year - 1, 12, 31>>
        ELSE <<year, month, n - prec + 1>>

\* date + timedelta(days) raises OverflowError outside date.min .. date.max
AddOverflows(d, days) ==
    LET o == Ymd2Ord(d) + days IN o < 1 \/ o > Ymd2Ord(<<9999, 12, 31>>)

AddDays(d, days) == Ord2Ymd(Ymd2Ord(d) + days)

ReplaceDay(d, day) == <<d[1], d[2], day>>

\* date.weekday(): 0 Monday ... 6 Sunday
Weekday(d) == (Ymd2Ord(d) + 6) % 7

\* date.isoformat(): "YYYY-MM-DD", zero padded, kept as its digits YYYYMMDD
IsoFormat(d) == d[1] * 10000 + d[2] * 100 + d[3]

(* --------------------------- the store --------------------------------- *)

VARIABLES
    employee,    \* db.employee: sequence of documents in insertion order
    schedule,    \* db.schedule: sequence of documents in insertion order
    pc,          \* per request: "idle", "found" (employees read), "done"
    body,        \* per request: the GenerateRequest
    employees,   \* per request: the list read from db.employee
    response     \* per request: what the handler returned or raised

vars == <<employee, schedule, pc, body, employees, response>>

\* hard_rules dictionaries: the keys present, each set to true; an absent
\* key reads as None, which the conditions treat like false
HardRuleKeys == {"no_night", "no_after_16_friday"}

EmptyRules == [k \in {} |-> TRUE]

HardRules == UNION { [ks -> {TRUE}] : ks \in SUBSET HardRuleKeys }

\* dict.get(key): None (falsy) when the key is absent
Get(rules, key) == IF key \in DOMAIN rules THEN rules[key] ELSE FALSE

\* str(ObjectId)
OidStr(oid) == ToString(oid)

\* variant: a schedule for a (department, year, month) already stored is not
\* stored again
InsertOneUnlessStored(coll, doc) ==
    IF /\ "year" \in DOMAIN doc
       /\ \E i \in 1..Len(coll) :
             /\ coll[i].department_id = doc.department_id
             /\ coll[i].year = doc.year
             /\ coll[i].month = doc.month
    THEN coll
    ELSE Append(coll, [doc EXCEPT !._id = Len(coll) + 1])

\* the store hands out a fresh _id with every inserted document
InsertOne(coll, doc) == Append(coll, [doc EXCEPT !._id = Len(coll) + 1])

RECURSIVE Find(_, _)
\* collection.find({"department_id": dep}): the matching documents, in order
Find(coll, dep) ==
    IF coll = << >> THEN << >>
    ELSE LET rest == Find(Tail(coll), dep)
         IN  IF Head(coll).department_id = dep
             THEN <<Head(coll)>> \o rest
             ELSE rest

\* employee collections the store can hold when the service starts
EmployeeDocs(n) ==
    [1..n -> [department_id : Departments, hard_rules : HardRules]]

InitialEmployees ==
    UNION { { [i \in 1..n |->
                 [_id |-> i,
                  department_id |-> ds[i].department_id,
                  hard_rules |-> ds[i].hard_rules]] : ds \in EmployeeDocs(n) }
            : n \in 0..MaxEmp }

NoResponse == [status |-> 0, id |-> 0, assignments |-> << >>]

NoBody == [department_id |-> "d1", year |-> 0, month |-> 0]

Init ==
    /\ employee \in InitialEmployees
    /\ schedule = << >>
    /\ pc = [p \in Procs |-> "idle"]
    /\ body = [p \in Procs |-> NoBody]
    /\ employees = [p \in Procs |-> << >>]
    /\ response = [p \in Procs |-> NoResponse]

(* ------------------------ shift rotation ------------------------------- *)

rotation == <<"D", "E", "N">>

\* variant: the rest day ignores the list position
RestDaySameForAll(day_offset, idx) == day_offset % 7 = 6

\* the rest-day test of the rotation
RestDay(day_offset, idx) == (day_offset + idx) % 7 = 6

\* variant: the rotation slot ignores the list position
BaseByDayOnly(day_offset, idx) == rotation[(day_offset % 3) + 1]

\* variant: the rotation carries on from the schedules already stored
BaseContinued(day_offset, idx) ==
    rotation[((day_offset + idx + Len(schedule)) % 3) + 1]

Base(day_offset, idx) == rotation[((day_offset + idx) % 3) + 1]

\* variant: the no_night flag is not consulted
NoNightRuleIgnored(prefers_no_night, base) == base

NoNightRule(prefers_no_night, base) ==
    IF Truthy(prefers_no_night) /\ base = "N" THEN "D" ELSE base

\* variant: Friday taken as isoweekday 5, which weekday() gives to Saturday
FridayRuleIsoWeekday(emp, weekday, shift) ==
    IF /\ Truthy(Get(emp.hard_rules, "no_after_16_friday"))
       /\ weekday = 5
       /\ shift \in {"E", "N"}
    THEN "D"
    ELSE shift

FridayRule(emp, weekday, shift) ==
    IF /\ Truthy(Get(emp.hard_rules, "no_after_16_friday"))
       /\ weekday = 4
       /\ shift \in {"E", "N"}
    THEN "D"
    ELSE shift

\* the body of the inner loop: the shift of one employee on one day
Shift(day_offset, idx, emp, weekday) ==
    IF RestDay(day_offset, idx)
    THEN "OFF"
    ELSE LET prefers_no_night == Get(emp.hard_rules, "no_night")
             base == Base(day_offset, idx)
         IN  FridayRule(emp, weekday, NoNightRule(prefers_no_night, base))

\* days of the month: first of next month minus first of this month
NextMonth(start) == ReplaceDay(AddDays(ReplaceDay(start, 28), 4), 1)

Days(start) == Ymd2Ord(NextMonth(start)) - Ymd2Ord(start)

\* both loops: days outermost, employees innermost, one append per pair
Assignments(emps, start) ==
    LET n == Len(emps)
        days == Days(start)
        dates == [day_offset \in 0..(days - 1) |-> AddDays(start, day_offset)]
        isos == [day_offset \in 0..(days - 1) |-> IsoFormat(dates[day_offset])]
        weekdays == [day_offset \in 0..(days - 1) |-> Weekday(dates[day_offset])]
        ids == [i \in 1..n |-> OidStr(emps[i]._id)]
    IN  [k \in 1..(days * n) |->
            LET day_offset == (k - 1) \div n
                idx == (k - 1) % n
            IN  [date |-> isos[day_offset],
                 employee_id |-> ids[idx + 1],
                 shift |-> Shift(day_offset, idx, emps[idx + 1],
                                 weekdays[day_offset])]]

\* variant: the stored list misses the last appended assignment
ScheduleDocShort(b, assignments) ==
    [_id |-> 0,
     department_id |-> b.department_id,
     year |-> b.year,
     month |-> b.month,
     assignments |-> SubSeq(assignments, 1, Len(assignments) - 1)]

ScheduleDoc(b, assignments) ==
    [_id |-> 0,
     department_id |-> b.department_id,
     year |-> b.year,
     month |-> b.month,
     assignments |-> assignments]

\* variant: the empty-department check is missing
NoEmployeesUnchecked(emps) == FALSE

NoEmployees(emps) == emps = << >>

Raise(code) == [status |-> code, id |-> 0, assignments |-> << >>]

(* ----------------------------- actions --------------------------------- *)

\* POST /api/employees: hard_rules is not part of the request body
create_employee(dep) ==
    /\ Len(employee) < MaxEmp
    /\ employee' = InsertOne(employee,
                     [_id |-> 0, department_id |-> dep, hard_rules |-> EmptyRules])
    /\ UNCHANGED <<schedule, pc, body, employees, response>>

\* generate_schedule up to the empty-department check
generate_schedule_find(p, b) ==
    /\ pc[p] = "idle"
    /\ body' = [body EXCEPT ![p] = b]
    /\ LET emps == Find(employee, b.department_id)
       IN  IF NoEmployees(emps)
           THEN /\ response' = [response EXCEPT ![p] = Raise(400)]
                /\ pc' = [pc EXCEPT ![p] = "done"]
                /\ UNCHANGED employees
           ELSE /\ employees' = [employees EXCEPT ![p] = emps]
                /\ pc' = [pc EXCEPT ![p] = "found"]
                /\ UNCHANGED response
    /\ UNCHANGED <<employee, schedule>>

\* generate_schedule from the date arithmetic to the insert and the return
generate_schedule_insert(p) ==
    /\ pc[p] = "found"
    /\ pc' = [pc EXCEPT ![p] = "done"]
    /\ LET b == body[p]
           start == <<b.year, b.month, 1>>
       IN  IF \/ ~ValidDate(b.year, b.month, 1)
              \/ AddOverflows(ReplaceDay(start, 28), 4)
           THEN /\ response' = [response EXCEPT ![p] = Raise(500)]
                /\ UNCHANGED schedule
           ELSE LET assignments == Assignments(employees[p], start)
                IN  /\ schedule' = InsertOne(schedule, ScheduleDoc(b, assignments))
                    /\ response' = [response EXCEPT ![p] =
                          [status |-> 200,
                           id |-> OidStr(Len(schedule) + 1),
                           assignments |-> assignments]]
    /\ UNCHANGED <<employee, body, employees>>

\* one request at a time, any month
Next ==
    \/ \E dep \in Departments : create_employee(dep)
    \/ \E b \in Bodies : generate_schedule_find(1, b)
    \/ generate_schedule_insert(1)

Spec == Init /\ [][Next]_vars

\* requests in flight together
NextConc ==
    \/ \E dep \in Departments : create_employee(dep)
    \/ \E p \in Procs, b \in ConcBodies : generate_schedule_find(p, b)
    \/ \E p \in Procs : generate_schedule_insert(p)

SpecConc == Init /\ [][NextConc]_vars

(* ------------------- reading a schedule back --------------------------- *)

Done200(p) == pc[p] = "done" /\ response[p].status = 200

\* the calendar date written in an assignment
IsoYear(iso) == iso \div 10000
IsoMonth(iso) == (iso \div 100) % 100
IsoDay(iso) == iso % 100

\* day of the week from the civil date alone: 0 Sunday ... 6 Saturday
MonthKey == <<0, 3, 2, 5, 0, 3, 5, 1, 4, 6, 2, 4>>

DayOfWeek(y, m, d) ==
    LET yy == IF m < 3 THEN y - 1 ELSE y
    IN  (yy + (yy \div 4) - (yy \div 100) + (yy \div 400) + MonthKey[m] + d) % 7

OnFriday(iso) == DayOfWeek(IsoYear(iso), IsoMonth(iso), IsoDay(iso)) = 5

\* length of a month as the calendar defines it
CalendarDays(y, m) ==
    IF m \in {4, 6, 9, 11} THEN 30
    ELSE IF m # 2 THEN 31
    ELSE IF y % 400 = 0 \/ (y % 4 = 0 /\ y % 100 # 0) THEN 29
    ELSE 28

\* position k of an assignment list built for n employees
OffsetOf(k, n) == (k - 1) \div n
IdxOf(k, n) == (k - 1) % n

NoNight(emp) ==
    "no_night" \in DOMAIN emp.hard_rules /\ emp.hard_rules["no_night"] = TRUE

NoLateFriday(emp) ==
    /\ "no_after_16_friday" \in DOMAIN emp.hard_rules
    /\ emp.hard_rules["no_after_16_friday"] = TRUE

(* ------------------------------ claims --------------------------------- *)

\* C1: an employee whose hard_rules has no_night = true is never assigned
\* Night in a generated schedule, whatever the month, the day offset and the
\* list position of the employee.
C1_NoNightNeverNight ==
    \A p \in Procs : Done200(p) =>
        LET A == response[p].assignments
            n == Len(employees[p])
        IN  \A k \in 1..Len(A) : \A e \in 1..n :
                (A[k].employee_id = OidStr(employees[p][e]._id)
                    /\ NoNight(employees[p][e]))
                => A[k].shift # "N"

\* C1 witness: a no_night employee at a position and day whose rotation
\* slot is Night on a working day, assigned Day instead
C1_Witness ==
    \E p \in Procs : Done200(p) /\
        LET A == response[p].assignments
            n == Len(employees[p])
        IN  \E k \in 1..Len(A) :
                /\ NoNight(employees[p][IdxOf(k, n) + 1])
                /\ IdxOf(k, n) = 1
                /\ (OffsetOf(k, n) + IdxOf(k, n)) % 3 = 2
                /\ (OffsetOf(k, n) + IdxOf(k, n)) % 7 # 6
                /\ A[k].shift = "D"

\* C2: an employee whose hard_rules has no_after_16_friday = true is assigned
\* Day or Off on every date that is a Friday, never Evening or Night, also
\* when no_night is set as well.
C2_FridayDayOrOff ==
    \A p \in Procs : Done200(p) =>
        LET A == response[p].assignments
            n == Len(employees[p])
        IN  \A k \in 1..Len(A) : \A e \in 1..n :
                (A[k].employee_id = OidStr(employees[p][e]._id)
                    /\ NoLateFriday(employees[p][e])
                    /\ OnFriday(A[k].date))
                => A[k].shift \in {"D", "OFF"}

\* C2 witness: a Friday whose rotation slot is Evening, and one whose slot is
\* Night, for employees with the Friday rule, one of them with no_night too
C2_Witness ==
    \E p \in Procs : Done200(p) /\
        LET A == response[p].assignments
            n == Len(employees[p])
            Hit(k, slot) ==
                /\ NoLateFriday(employees[p][IdxOf(k, n) + 1])
                /\ OnFriday(A[k].date)
                /\ (OffsetOf(k, n) + IdxOf(k, n)) % 3 = slot
                /\ (OffsetOf(k, n) + IdxOf(k, n)) % 7 # 6
                /\ A[k].shift = "D"
        IN  /\ \E k \in 1..Len(A) : Hit(k, 1)
            /\ \E k \in 1..Len(A) :
                    Hit(k, 2) /\ ~NoNight(employees[p][IdxOf(k, n) + 1])
            /\ \E k \in 1..Len(A) :
                    Hit(k, 2) /\ NoNight(employees[p][IdxOf(k, n) + 1])

\* the rule of C4, written out for day offset i, list position idx, the two
\* flags and whether the date is a Friday
ReferenceShift(i, idx, noNight, noLateFriday, friday) ==
    IF (i + idx) % 7 = 6 THEN "OFF"
    ELSE LET slot == (i + idx) % 3
             base == IF slot = 0 THEN "D" ELSE IF slot = 1 THEN "E" ELSE "N"
             s1 == IF base = "N" /\ noNight THEN "D" ELSE base
         IN  IF noLateFriday /\ friday /\ s1 \in {"E", "N"} THEN "D" ELSE s1

\* C4: for every day offset i and every employee at list position idx the
\* assigned shift is Off if (i + idx) mod 7 = 6, and otherwise the element of
\* [Day, Evening, Night] at (i + idx) mod 3, made Day when it is Night and
\* no_night is true, then made Day when no_after_16_friday is true, the date
\* is a Friday and the shift is Evening or Night; so it is Off exactly when
\* (i + idx) mod 7 = 6.
C4_ShiftIsReferenceRule ==
    \A p \in Procs : Done200(p) =>
        LET A == response[p].assignments
            n == Len(employees[p])
        IN  \A k \in 1..Len(A) :
                LET i == OffsetOf(k, n)
                    idx == IdxOf(k, n)
                    emp == employees[p][idx + 1]
                IN  /\ A[k].employee_id = OidStr(emp._id)
                    /\ A[k].shift = ReferenceShift(i, idx, NoNight(emp),
                                        NoLateFriday(emp), OnFriday(A[k].date))
                    /\ (A[k].shift = "OFF") <=> ((i + idx) % 7 = 6)
                    /\ A[k].shift \in {"D", "E", "N", "OFF"}

\* C4 witness: a schedule for two employees in which Off, Day, Evening and
\* Night all occur and one employee carries both flags
C4_Witness ==
    \E p \in Procs : Done200(p) /\
        LET A == response[p].assignments
        IN  /\ Len(employees[p]) = 2
            /\ \E e \in 1..2 : NoNight(employees[p][e]) /\ NoLateFriday(employees[p][e])
            /\ \A sh \in {"D", "E", "N", "OFF"} : \E k \in 1..Len(A) : A[k].shift = sh

\* C3: generate_schedule for a department with zero employees fails with a
\* 400 error and leaves the schedule collection unchanged, whatever year and
\* month are requested.
C3_EmptyDepartment400 ==
    [][\A p \in Procs :
          (/\ pc[p] = "idle"
           /\ pc'[p] # "idle"
           /\ \A i \in 1..Len(employee) :
                 employee[i].department_id # body'[p].department_id)
          => /\ pc'[p] = "done"
             /\ response'[p].status = 400
             /\ response'[p].assignments = << >>
             /\ schedule' = schedule]_vars

\* C3 witness: requests for an empty department answered 400 with nothing
\* stored, for a month date() accepts and for one it rejects
C3_Witness ==
    /\ pc[1] = "done"
    /\ response[1].status = 400
    /\ body[1].year = 9999
    /\ body[1].month = 12
    /\ \E i \in 1..Len(employee) : employee[i].department_id # body[1].department_id
    /\ schedule = << >>

\* what C5 asks of one finished request
MonthCovered(p) ==
    /\ response[p].status = 200
    /\ LET A == response[p].assignments
           n == Len(employees[p])
           days == CalendarDays(body[p].year, body[p].month)
       IN  /\ Len(A) = n * days
           /\ \A k \in 1..Len(A) :
                 /\ IsoYear(A[k].date) = body[p].year
                 /\ IsoMonth(A[k].date) = body[p].month
                 /\ IsoDay(A[k].date) \in 1..days
           /\ \A e \in 1..n : \A day \in 1..days :
                 Cardinality({ k \in 1..Len(A) :
                     /\ A[k].employee_id = OidStr(employees[p][e]._id)
                     /\ IsoDay(A[k].date) = day }) = 1

ValidMonthRequested(p) ==
    /\ pc[p] = "done"
    /\ response[p].status # 400
    /\ body[p].year \in 1..9999
    /\ body[p].month \in 1..12

\* C5: for every valid (year, month) generate_schedule produces for each
\* employee exactly one assignment for each calendar date of that month and
\* none for any other date: 31, 30, 28 or 29 days, December included.
C5_EveryValidMonthCovered ==
    \A p \in Procs : ValidMonthRequested(p) => MonthCovered(p)

\* C5, the months the code does cover: every valid month before December
\* 9999 (kept to show that the divergence is confined to that one month)
C5_CoveredBeforeLastMonth ==
    \A p \in Procs :
        (ValidMonthRequested(p) /\ <<body[p].year, body[p].month>> # <<9999, 12>>)
        => MonthCovered(p)

\* C9: in a schedule generated for at least two employees there is no date
\* on which every employee is assigned Off.
C9_NeverAllOff ==
    \A p \in Procs : (Done200(p) /\ Len(employees[p]) >= 2) =>
        LET A == response[p].assignments
        IN  \A k \in 1..Len(A) :
                \E k2 \in 1..Len(A) :
                    A[k2].date = A[k].date /\ A[k2].shift # "OFF"

\* C9 witness: a schedule for the largest department in which every
\* employee has a rest day
C9_Witness ==
    \E p \in Procs : Done200(p) /\
        LET A == response[p].assignments
            n == Len(employees[p])
        IN  /\ n >= 2
            /\ n = Len(employee)
            /\ \A e \in 1..n : \E k \in 1..Len(A) :
                    IdxOf(k, n) = e - 1 /\ A[k].shift = "OFF"

\* C10: each employee is off every 4th day: two consecutive Off days of the
\* same employee are 4 days apart.
C10_OffEveryFourthDay ==
    \A p \in Procs : Done200(p) =>
        LET A == response[p].assignments
            n == Len(employees[p])
        IN  \A k1, k2 \in 1..Len(A) :
                (/\ k1 < k2
                 /\ A[k1].employee_id = A[k2].employee_id
                 /\ A[k1].shift = "OFF"
                 /\ A[k2].shift = "OFF"
                 /\ \A k \in (k1 + 1)..(k2 - 1) :
                       A[k].employee_id = A[k1].employee_id => A[k].shift # "OFF")
                => OffsetOf(k2, n) - OffsetOf(k1, n) = 4

SameKey(doc, b) ==
    /\ doc.department_id = b.department_id
    /\ doc.year = b.year
    /\ doc.month = b.month

\* one step of the store as C6 describes it
C6_Step ==
    /\ schedule' # schedule =>
          /\ Len(schedule') = Len(schedule) + 1
          /\ SubSeq(schedule', 1, Len(schedule)) = schedule
          /\ \E p \in Procs :
                /\ pc[p] = "found"
                /\ pc'[p] = "done"
                /\ response'[p].status = 200
                /\ SameKey(schedule'[Len(schedule')], body[p])
                /\ schedule'[Len(schedule')].assignments = response'[p].assignments
                /\ response'[p].id = OidStr(schedule'[Len(schedule')]._id)
    /\ \A p \in Procs :
          (pc[p] = "found" /\ pc'[p] = "done" /\ response'[p].status = 200)
          => Len(schedule') = Len(schedule) + 1

\* two finished calls with the same request and the same employee list
C6_TwoCalls ==
    (/\ Done200(1)
     /\ Done200(2)
     /\ body[1] = body[2]
     /\ employees[1] = employees[2])
    => /\ Len(schedule) = 2
       /\ SameKey(schedule[1], body[1])
       /\ SameKey(schedule[2], body[1])
       /\ schedule[1]._id # schedule[2]._id
       /\ schedule[1].assignments = schedule[2].assignments

\* C6: every successful generate_schedule call inserts exactly one new
\* schedule record whose assignments equal the list returned to the caller
\* and leaves every stored record unchanged; two calls with the same
\* department, year and month and an unchanged employee list leave two
\* stored records with identical assignments.
C6_InsertsOneRecord == [][C6_Step]_vars /\ []C6_TwoCalls

\* C6 witness: two finished calls for the same month and employee list, two
\* records stored
C6_Witness ==
    /\ Done200(1)
    /\ Done200(2)
    /\ body[1] = body[2]
    /\ employees[1] = employees[2]
    /\ Len(schedule) = 2
    /\ schedule[1].assignments # << >>

C8_RacingRequestsBothStored ==
    \A p, q \in Procs :
        (/\ p # q
         /\ pc[p] = "done"
         /\ pc[q] = "done"
         /\ employees[p] # << >>
         /\ employees[q] # << >>
         /\ body[p] = body[q])
        => /\ response[p].status = 200
           /\ response[q].status = 200
           /\ Cardinality({ i \in 1..Len(schedule) : SameKey(schedule[i], body[p]) }) = 2
           /\ \E i, j \in 1..Len(schedule) :
                 /\ i # j
                 /\ response[p].id = OidStr(schedule[i]._id)
                 /\ response[q].id = OidStr(schedule[j]._id)
                 /\ schedule[i].assignments = response[p].assignments
                 /\ schedule[j].assignments = response[q].assignments

\* C8 witness: both requests finished for the same month; an employee was
\* created between the two reads, and the request that read first
\* inserted last
C8_Witness ==
    /\ pc[1] = "done"
    /\ pc[2] = "done"
    /\ body[1] = body[2]
    /\ employees[1] # << >>
    /\ Len(employees[2]) = Len(employees[1]) + 1
    /\ Len(schedule) = 2
    /\ response[2].id = OidStr(schedule[1]._id)
    /\ response[1].id = OidStr(schedule[2]._id)

====
